---- MODULE Spec2Model ----
(***************************************************************************)
(* Model of the ai-conventional-commit command line scripts.               *)
(*                                                                         *)
(* The repository holds three revisions of the same script:                *)
(*   "index"    src/index.mjs                                              *)
(*   "part_001" src/unnamed/part_001  (adds argv.showPrompt, argv.dryrun)  *)
(*   "part_000" src/unnamed/part_000  (adds askYesOrNo, argv.clipboard)    *)
(* One run of main() of one revision is one behaviour of the model.        *)
(*                                                                         *)
(* Strings are sequences of tokens so that concatenation, path.basename,   *)
(* path.extname and the quoting of the commit message are computed and not *)
(* assumed.  "/" and "." are the path separator and the extension dot.     *)
(***************************************************************************)
EXTENDS Integers, Sequences, FiniteSets, TLC

VARIABLES rev, argv, pc, verbose, inputText, isCommit, filesToCommit, file,
          commitMessage, error, calls, out

vars == <<rev, argv, pc, verbose, inputText, isCommit, filesToCommit, file,
          commitMessage, error, calls, out>>

\* ---------------------------------------------------------------- bounds
MaxStaged == 2

\* ------------------------------------------------------- value universes
Revisions == {"index", "part_001", "part_000"}

Undefined == <<"undefined">>

Paths == { <<"README", ".", "md">>,
           <<"src", "/", "app", ".", "js">>,
           <<"Makefile">> }

Notes == { <<"fix bug">> }

Messages == { <<"fix", ":", "bug">>, <<"docs", ":", "update">> }

Answers == { <<>>, <<"n">>, <<"N">>, <<"y">>, <<"no">> }

\* what minimist can store under a flag
Absent     == [t |-> "absent", b |-> FALSE, n |-> 0, s |-> <<>>]
Bool(x)    == [t |-> "bool",   b |-> x,     n |-> 0, s |-> <<>>]
Num(x)     == [t |-> "num",    b |-> FALSE, n |-> x, s |-> <<>>]
Str(x)     == [t |-> "str",    b |-> FALSE, n |-> 0, s |-> x]

FlagValues == {Absent, Bool(TRUE), Bool(FALSE), Num(0), Num(1), Str(<<>>)}
              \cup {Str(p) : p \in Paths}

\* JavaScript truthiness of a flag value
Truthy(v) == CASE v.t = "absent" -> FALSE
               [] v.t = "bool"   -> v.b
               [] v.t = "num"    -> v.n # 0
               [] v.t = "str"    -> Len(v.s) > 0

IsString(v) == v.t = "str"

RECURSIVE SeqsUpTo(_, _)
SeqsUpTo(S, n) == IF n = 0 THEN {<<>>}
                  ELSE LET prev == SeqsUpTo(S, n - 1)
                       IN prev \cup {Append(q, x) : q \in prev, x \in S}

\* result of getFilesToCommit: blank lines are filtered out (part_000:131-134)
StagedLists == SeqsUpTo(Paths, MaxStaged)

\* ---------------------------------------------------------- path helpers
RECURSIVE LastIndexOf(_, _)
LastIndexOf(s, tok) == IF Len(s) = 0 THEN 0
                       ELSE IF s[Len(s)] = tok THEN Len(s)
                       ELSE LastIndexOf(SubSeq(s, 1, Len(s) - 1), tok)

RECURSIVE StripTrailingSlashes(_)
StripTrailingSlashes(p) == IF Len(p) > 0 /\ p[Len(p)] = "/"
                           THEN StripTrailingSlashes(SubSeq(p, 1, Len(p) - 1))
                           ELSE p

basename(p) == LET q == StripTrailingSlashes(p)
               IN SubSeq(q, LastIndexOf(q, "/") + 1, Len(q))

extname(p) == LET b == basename(p)
                  i == LastIndexOf(b, ".")
              IN IF i <= 1 THEN <<>> ELSE SubSeq(b, i, Len(b))

\* ------------------------------------------------------- program helpers
Call(op, arg)     == [op |-> op, arg |-> arg]
Line(stream, txt) == [stream |-> stream, text |-> txt]

RECURSIVE Join(_)
\* args.join(' ')
Join(args) == IF Len(args) = 0 THEN <<>>
              ELSE IF Len(args) = 1 THEN args[1]
              ELSE args[1] \o <<" ">> \o Join(Tail(args))

\* askYesOrNo: result !== 'n' && result !== 'N'
askYesOrNo(result) == result # <<"n">> /\ result # <<"N">>

\* getCommitInfo without the branch for a string-valued --commit
getCommitInfoNoLongFlag(a) ==
    IF ~(Truthy(a.c) \/ Truthy(a.commit))
    THEN [commit |-> FALSE, from |-> "staged", files |-> <<>>]
    ELSE IF Truthy(a.c) /\ IsString(a.c)
    THEN [commit |-> TRUE, from |-> "argv", files |-> <<a.c.s>>]
    ELSE [commit |-> TRUE, from |-> "staged", files |-> <<>>]

\* getCommitInfo: the commit decision and where the file list comes from
getCommitInfo(a) ==
    IF ~(Truthy(a.c) \/ Truthy(a.commit))
    THEN [commit |-> FALSE, from |-> "staged", files |-> <<>>]
    ELSE IF Truthy(a.c) /\ IsString(a.c)
    THEN [commit |-> TRUE, from |-> "argv", files |-> <<a.c.s>>]
    ELSE IF Truthy(a.commit) /\ IsString(a.commit)
    THEN [commit |-> TRUE, from |-> "argv", files |-> <<a.commit.s>>]
    ELSE [commit |-> TRUE, from |-> "staged", files |-> <<>>]

\* the early return with its commit test inverted
NothingToCommitInverted(r, commit, files) == ~commit /\ Len(files) = 0

\* main: the early return on an empty file list
NothingToCommit(r, commit, files) == commit /\ Len(files) = 0

\* main: the warning 'no file to commit!' is printed
WarnsNoFile(r, commit, files) ==
    IF r = "index" THEN commit /\ Len(files) = 0 ELSE Len(files) = 0

\* main: promptExt
promptExt(r, f) ==
    IF r = "index"
    THEN <<"concerning file ">> \o basename(f) \o extname(f) \o <<" ">>
    ELSE <<"concerning file ">> \o basename(f) \o <<" ">>

\* main: const file = ...
fileArg(r, files) ==
    IF Len(files) = 1
    THEN (IF r = "part_000" THEN files[1] ELSE promptExt(r, files[1]))
    ELSE Undefined

\* conventionalCommit: the value bound to {file} in the prompt template
promptFile(r, f) ==
    IF r = "part_000"
    THEN (IF f # Undefined /\ Len(f) > 0
          THEN <<"i have to commit file \"">> \o basename(f) \o <<"\" ">>
          ELSE <<>>)
    ELSE (IF f = Undefined THEN <<>> ELSE f)

\* conventionalCommit: the line "as developer ..." of the formatted template
promptText(r, f, txt) ==
    IF r = "part_000"
    THEN <<"as developer ">> \o promptFile(r, f) \o <<"\"">> \o txt \o <<"\"">>
    ELSE IF r = "part_001"
    THEN <<"as developer: ">> \o promptFile(r, f) \o txt
    ELSE <<"as developer: ">> \o promptFile(r, f) \o <<" ">> \o txt

\* conventionalCommit: argv.showPrompt is read by part_000 and part_001 only
ShowsPrompt(r, a) == r # "index" /\ a.showPrompt

\* the catch block without the rethrow
generationNextSwallowed(ok) == "clipboard"

\* conventionalCommit: catch (error) { console.error(...); throw error }
generationNext(ok) == IF ok THEN "clipboard" ELSE "rejected"

\* the confirmation asked again after a decline
confirmNextReprompt(ok) == IF ok THEN "commitFiles" ELSE "askYesOrNo"

\* main: if( isCommit && await askYesOrNo(...) ) commitFiles, else return
confirmNext(ok) == IF ok THEN "commitFiles" ELSE "resolved"

\* main: is clipboard.write awaited
WritesClipboard(r, a) ==
    IF r = "part_000" THEN a.clipboard \/ a.cp ELSE TRUE

\* commitFiles: the argument list of git commit
commitArgs(msg, files) ==
    << <<"-m">>, <<"\"">> \o msg \o <<"\"">> >>
      \o (IF Len(files) = 1 THEN <<files[1]>> ELSE <<>>)

\* commitFiles: argv.dryrun is read by part_001 only
DryRun(r, a) == r = "part_001" /\ a.dryrun

\* the input check testing for more than one positional argument
MissingInputOffByOne(a) == Len(a.args) > 1

\* main: argv._.length === 0
MissingInput(a) == Len(a.args) = 0

\* ------------------------------------------------------------------ Init
Init ==
    /\ rev \in Revisions
    /\ argv \in [args : {<<>>} \cup {<<n>> : n \in Notes},
                 c : FlagValues, commit : FlagValues,
                 clipboard : BOOLEAN, cp : BOOLEAN,
                 dryrun : BOOLEAN, showPrompt : BOOLEAN]
    /\ pc = "main"
    /\ verbose = TRUE
    /\ inputText = Undefined
    /\ isCommit = FALSE
    /\ filesToCommit = <<>>
    /\ file = Undefined
    /\ commitMessage = Undefined
    /\ error = Undefined
    /\ calls = <<>>
    /\ out = <<>>

\* --------------------------------------------------------------- actions
\* main, up to the call of getCommitInfo
MainStart ==
    /\ pc = "main"
    /\ IF MissingInput(argv)
       THEN /\ error' = <<"Please provide input text">>
            /\ pc' = "rejected"
            /\ UNCHANGED <<inputText, verbose>>
       ELSE /\ inputText' = (IF Len(argv.args) > 0 THEN argv.args[1] ELSE Undefined)
            /\ verbose' = FALSE
            /\ pc' = "getCommitInfo"
            /\ UNCHANGED error
    /\ UNCHANGED <<rev, argv, isCommit, filesToCommit, file, commitMessage,
                   calls, out>>

\* await getCommitInfo(), with getFilesToCommit when the staged list is used
GetCommitInfo ==
    /\ pc = "getCommitInfo"
    /\ LET info == getCommitInfo(argv) IN
       IF info.from = "argv"
       THEN /\ isCommit' = info.commit
            /\ filesToCommit' = info.files
            /\ pc' = "checkFiles"
            /\ UNCHANGED <<calls, error>>
       ELSE /\ \/ \E staged \in StagedLists :
                    /\ calls' = Append(calls, Call("gitDiff", staged))
                    /\ isCommit' = info.commit
                    /\ filesToCommit' = staged
                    /\ pc' = "checkFiles"
                    /\ UNCHANGED error
               \/ /\ calls' = Append(calls, Call("gitDiff", <<>>))
                  /\ error' = <<"git diff failed">>
                  /\ pc' = "rejected"
                  /\ UNCHANGED <<isCommit, filesToCommit>>
    /\ UNCHANGED <<rev, argv, verbose, inputText, file, commitMessage, out>>

\* main: the empty-list check and the computation of file
CheckFiles ==
    /\ pc = "checkFiles"
    /\ out' = IF WarnsNoFile(rev, isCommit, filesToCommit)
              THEN Append(out, Line("warn", <<"no file to commit!">>))
              ELSE out
    /\ IF NothingToCommit(rev, isCommit, filesToCommit)
       THEN pc' = "resolved" /\ UNCHANGED file
       ELSE pc' = "conventionalCommit" /\ file' = fileArg(rev, filesToCommit)
    /\ UNCHANGED <<rev, argv, verbose, inputText, isCommit, filesToCommit,
                   commitMessage, error, calls>>

\* await conventionalCommit(inputText, file)
ConventionalCommit ==
    /\ pc = "conventionalCommit"
    /\ calls' = calls \o << Call("conventionalCommit", <<inputText, file>>),
                            Call("llm", <<promptFile(rev, file), inputText>>) >>
    /\ LET shown == IF ShowsPrompt(rev, argv)
                    THEN Append(out, Line("log", promptText(rev, file, inputText)))
                    ELSE out
       IN \/ \E msg \in Messages :
               /\ commitMessage' = msg
               /\ out' = shown
               /\ pc' = generationNext(TRUE)
               /\ UNCHANGED error
          \/ /\ out' = Append(shown, Line("error",
                          <<"Error generating the commit message:">>))
             /\ error' = <<"generation failed">>
             /\ pc' = generationNext(FALSE)
             /\ UNCHANGED commitMessage
    /\ UNCHANGED <<rev, argv, verbose, inputText, isCommit, filesToCommit, file>>

\* await clipboard.write(commitMessage)
ClipboardWrite ==
    /\ pc = "clipboard"
    /\ IF WritesClipboard(rev, argv)
       THEN /\ calls' = Append(calls, Call("clipboard.write", <<commitMessage>>))
            /\ \/ pc' = "dispatch" /\ UNCHANGED error
               \/ pc' = "rejected" /\ error' = <<"clipboard write failed">>
       ELSE pc' = "dispatch" /\ UNCHANGED <<calls, error>>
    /\ UNCHANGED <<rev, argv, verbose, inputText, isCommit, filesToCommit, file,
                   commitMessage, out>>

\* main: $.verbose = true and the display / commit decision
Dispatch ==
    /\ pc = "dispatch"
    /\ verbose' = TRUE
    /\ CASE rev = "index" ->
              /\ pc' = IF isCommit THEN "commitFiles" ELSE "resolved"
              /\ UNCHANGED out
         [] rev = "part_001" ->
              IF isCommit
              THEN pc' = "commitFiles" /\ UNCHANGED out
              ELSE pc' = "resolved" /\ out' = Append(out, Line("log", commitMessage))
         [] rev = "part_000" ->
              /\ out' = Append(out, Line("log", commitMessage))
              /\ pc' = IF isCommit THEN "askYesOrNo" ELSE "resolved"
    /\ UNCHANGED <<rev, argv, inputText, isCommit, filesToCommit, file,
                   commitMessage, error, calls>>

\* await askYesOrNo('confirm commit')
AskYesOrNo ==
    /\ pc = "askYesOrNo"
    /\ \E result \in Answers :
         /\ calls' = Append(calls, Call("question", <<result>>))
         /\ pc' = confirmNext(askYesOrNo(result))
    /\ UNCHANGED <<rev, argv, verbose, inputText, isCommit, filesToCommit, file,
                   commitMessage, error, out>>

\* await commitFiles(commitMessage, filesToCommit)
CommitFiles ==
    /\ pc = "commitFiles"
    /\ LET args    == commitArgs(commitMessage, filesToCommit)
           entered == Append(calls, Call("commitFiles",
                                         <<commitMessage>> \o filesToCommit))
       IN IF DryRun(rev, argv)
          THEN /\ out' = Append(out, Line("log", <<"git commit ">> \o Join(args)))
               /\ calls' = entered
               /\ pc' = "resolved"
               /\ UNCHANGED error
          ELSE /\ calls' = Append(entered, Call("gitCommit", args))
               /\ out' = IF verbose
                         THEN Append(out, Line("echo", <<"$ git commit ">> \o Join(args)))
                         ELSE out
               /\ \/ pc' = "resolved" /\ UNCHANGED error
                  \/ pc' = "rejected" /\ error' = <<"git commit failed">>
    /\ UNCHANGED <<rev, argv, verbose, inputText, isCommit, filesToCommit, file,
                   commitMessage>>

\* main().then(...).catch(error => console.log(error))
Settle ==
    /\ pc \in {"resolved", "rejected"}
    /\ out' = IF pc = "rejected" THEN Append(out, Line("log", error))
              ELSE IF rev = "index" THEN Append(out, Line("log", <<"done!">>))
              ELSE out
    /\ pc' = IF pc = "rejected" THEN "exitError" ELSE "exit"
    /\ UNCHANGED <<rev, argv, verbose, inputText, isCommit, filesToCommit, file,
                   commitMessage, error, calls>>

Next ==
    \/ MainStart
    \/ GetCommitInfo
    \/ CheckFiles
    \/ ConventionalCommit
    \/ ClipboardWrite
    \/ Dispatch
    \/ AskYesOrNo
    \/ CommitFiles
    \/ Settle

Spec == Init /\ [][Next]_vars

\* ------------------------------------------------------------- observers
CallsOf(op) == {i \in 1..Len(calls) : calls[i].op = op}
Count(op)   == Cardinality(CallsOf(op))
Ended       == pc \in {"exit", "exitError"}
CommitRequested == Truthy(argv.c) \/ Truthy(argv.commit)
Printed(txt) == {i \in 1..Len(out) : out[i].stream = "log" /\ out[i].text = txt}

NoInput      == Len(argv.args) = 0
UsageError   == <<"Please provide input text">>
GenFailed    == error = <<"generation failed">>
ClipFailed   == error = <<"clipboard write failed">>
FilesResolved == pc \notin {"main", "getCommitInfo"} /\ error # <<"git diff failed">>
                 /\ ~NoInput
Generated    == commitMessage # Undefined
Shown(stream, txt) == \E i \in 1..Len(out) : out[i].stream = stream /\ out[i].text = txt

\* ------------------------------------------------------------------ C1
\* C1: whenever a commit is requested and the resolved file list is empty,
\* the run makes no call to conventionalCommit, to the generation service,
\* to commitFiles or to git commit, and once past the check it has printed
\* the 'no file to commit!' warning and is returning or has exited normally.
C1_NoFilesHalts ==
    (CommitRequested /\ FilesResolved /\ Len(filesToCommit) = 0) =>
        /\ Count("conventionalCommit") = 0
        /\ Count("llm") = 0
        /\ Count("commitFiles") = 0
        /\ Count("gitCommit") = 0
        /\ pc \in {"checkFiles", "resolved", "exit"}
        /\ pc # "checkFiles" => Shown("warn", <<"no file to commit!">>)

C1_Witness ==
    /\ pc = "exit" /\ CommitRequested /\ isCommit
    /\ Count("gitDiff") = 1 /\ Len(filesToCommit) = 0
    /\ Shown("warn", <<"no file to commit!">>)

\* ------------------------------------------------------------------ C2
\* C2 (as claimed): every invocation of commitFiles is preceded by a
\* confirmation question answered with something other than 'n' or 'N',
\* and after an 'n' or 'N' answer commitFiles is not invoked.
C2_ConfirmBeforeCommit ==
    /\ \A i \in CallsOf("commitFiles") :
          \E j \in CallsOf("question") : j < i /\ askYesOrNo(calls[j].arg[1])
    /\ (\E j \in CallsOf("question") : ~askYesOrNo(calls[j].arg[1]))
          => Count("commitFiles") = 0

\* ------------------------------------------------------------------ C3
\* C3 (as claimed): git commit receives the generated message unchanged as
\* the value of -m, followed by the file exactly when one file is resolved.
C3_CommitArguments ==
    \A i \in CallsOf("gitCommit") :
        calls[i].arg = << <<"-m">>, commitMessage >>
                         \o (IF Len(filesToCommit) = 1
                             THEN <<filesToCommit[1]>> ELSE <<>>)

\* ------------------------------------------------------------------ C4
\* C4 (amended): once getCommitInfo has returned, commit=false and files is
\* the staged list when neither flag has a truthy value; commit=true and
\* files=[string] without a staged-files query when -c, or else --commit,
\* carries a non-empty string; commit=true and files is the staged list
\* otherwise.
C4_GetCommitInfoTruthy ==
    pc = "checkFiles" =>
        IF ~Truthy(argv.c) /\ ~Truthy(argv.commit)
        THEN /\ ~isCommit
             /\ Count("gitDiff") = 1 /\ filesToCommit = calls[1].arg
        ELSE IF IsString(argv.c) /\ Len(argv.c.s) > 0
        THEN isCommit /\ filesToCommit = <<argv.c.s>> /\ Count("gitDiff") = 0
        ELSE IF IsString(argv.commit) /\ Len(argv.commit.s) > 0
        THEN isCommit /\ filesToCommit = <<argv.commit.s>> /\ Count("gitDiff") = 0
        ELSE /\ isCommit
             /\ Count("gitDiff") = 1 /\ filesToCommit = calls[1].arg

C4_Witness ==
    /\ pc = "checkFiles"
    /\ argv.c = Bool(TRUE) /\ IsString(argv.commit) /\ Len(argv.commit.s) > 0
    /\ isCommit /\ filesToCommit = <<argv.commit.s>> /\ calls = <<>>

\* C4 (as claimed): the three cases decided by the presence of a flag and by
\* its carrying a string value.
C4_GetCommitInfoPresent ==
    pc = "checkFiles" =>
        IF argv.c = Absent /\ argv.commit = Absent
        THEN /\ ~isCommit
             /\ Count("gitDiff") = 1 /\ filesToCommit = calls[1].arg
        ELSE IF IsString(argv.c) \/ IsString(argv.commit)
        THEN /\ isCommit /\ Count("gitDiff") = 0
             /\ \/ IsString(argv.c) /\ filesToCommit = <<argv.c.s>>
                \/ IsString(argv.commit) /\ filesToCommit = <<argv.commit.s>>
        ELSE /\ isCommit
             /\ Count("gitDiff") = 1 /\ filesToCommit = calls[1].arg

\* ------------------------------------------------------------------ C5
FileClauses(b) == { <<"concerning file ">> \o b \o <<" ">>,
                    <<"i have to commit file \"">> \o b \o <<"\" ">> }

\* C5 (as claimed): the file context of the generation request is non-empty
\* exactly when one file is resolved, and then it is the clause naming the
\* base name of that file and nothing more.
C5_FileContext ==
    \A i \in CallsOf("llm") :
        LET ctx == calls[i].arg[1] IN
        /\ (ctx # <<>>) <=> (Len(filesToCommit) = 1)
        /\ Len(filesToCommit) = 1 => ctx \in FileClauses(basename(filesToCommit[1]))

\* ------------------------------------------------------------------ C6
\* C6: after a failed generation call the run is rejected with that error,
\* commitFiles, git commit and clipboard.write are never called, no message
\* is displayed, and at exit the error has been logged by the top level.
C6_GenerationFailure ==
    GenFailed =>
        /\ pc \in {"rejected", "exitError"}
        /\ Count("commitFiles") = 0
        /\ Count("gitCommit") = 0
        /\ Count("clipboard.write") = 0
        /\ ~Generated
        /\ \A i \in 1..Len(out) : out[i].text \notin Messages \cup {Undefined}
        /\ pc = "exitError" => Shown("log", error)

C6_Witness ==
    /\ pc = "exitError" /\ GenFailed /\ Count("llm") = 1
    /\ Shown("error", <<"Error generating the commit message:">>)

\* ------------------------------------------------------------------ C7
\* C7 (as claimed): a run whose clipboard write failed still displays the
\* generated message and, when a commit was requested, invokes commitFiles
\* (the revision that asks for confirmation may be declined).
C7_ClipboardFailureNotFatal ==
    (Ended /\ ClipFailed) =>
        /\ Shown("log", commitMessage)
        /\ (isCommit /\ rev # "part_000") => Count("commitFiles") = 1

\* ------------------------------------------------------------------ C8
\* C8 (as claimed): a finished run with no commit requested and a generated
\* message has printed that message exactly once.
C8_MessagePrintedOnce ==
    (Ended /\ ~CommitRequested /\ Generated) =>
        Cardinality(Printed(commitMessage)) = 1

\* ------------------------------------------------------------------ C9
\* C9: with no note argument no external or internal call is ever made, the
\* run is rejected with the usage error, and at exit that error is logged.
C9_UsageErrorFirst ==
    NoInput =>
        /\ calls = <<>>
        /\ pc \in {"main", "rejected", "exitError"}
        /\ pc # "main" => error = UsageError
        /\ pc = "exitError" => out = <<Line("log", UsageError)>>

C9_Witness == NoInput /\ pc = "exitError" /\ error = UsageError

\* ------------------------------------------------------------------ C10
\* C10 (as claimed): with the dry-run option and a commit requested git
\* commit is never executed, and a finished run that entered commitFiles has
\* printed the commit invocation.
C10_DryRunNeverCommits ==
    (argv.dryrun /\ CommitRequested) =>
        /\ Count("gitCommit") = 0
        /\ (Ended /\ Count("commitFiles") > 0) =>
              Shown("log", <<"git commit ">>
                           \o Join(commitArgs(commitMessage, filesToCommit)))

\* ------------------------------------------------------------------ C11
StepRank(op) == CASE op = "gitDiff"         -> 1
                  [] op = "llm"             -> 2
                  [] op = "clipboard.write" -> 3
                  [] op = "question"        -> 4
                  [] op = "gitCommit"       -> 5
                  [] OTHER                  -> 0

IsExternal(c) == StepRank(c.op) > 0
ExternalSteps == SelectSeq(calls, IsExternal)

PcRank(p) == CASE p = "main"               -> 0
               [] p = "getCommitInfo"      -> 1
               [] p = "checkFiles"         -> 2
               [] p = "conventionalCommit" -> 3
               [] p = "clipboard"          -> 4
               [] p = "dispatch"           -> 5
               [] p = "askYesOrNo"         -> 6
               [] p = "commitFiles"        -> 7
               [] p \in {"resolved", "rejected"} -> 8
               [] OTHER                    -> 9

Declined  == \E j \in CallsOf("question") : ~askYesOrNo(calls[j].arg[1])
COMMITTED == pc = "exit" /\ Count("commitFiles") = 1 /\ ~Declined
DECLINED  == pc = "exit" /\ Declined /\ Count("commitFiles") = 0
DISPLAYED_ONLY == pc = "exit" /\ ~isCommit /\ Generated /\ Count("commitFiles") = 0
ABORT     == \/ pc = "exitError"
             \/ pc = "exit" /\ isCommit /\ Len(filesToCommit) = 0 /\ ~Generated

Outcomes == {o \in {"COMMITTED", "DECLINED", "DISPLAYED_ONLY", "ABORT"} :
               CASE o = "COMMITTED"      -> COMMITTED
                 [] o = "DECLINED"       -> DECLINED
                 [] o = "DISPLAYED_ONLY" -> DISPLAYED_ONLY
                 [] OTHER                -> ABORT}

C11_StepsInOrder ==
    /\ \A i, j \in 1..Len(ExternalSteps) :
          i < j => StepRank(ExternalSteps[i].op) < StepRank(ExternalSteps[j].op)
    /\ Ended => Cardinality(Outcomes) = 1
    /\ ~Ended => Outcomes = {}

====
